---- MODULE Spec2Model ----
(***************************************************************************)
(* The baseN codec (base64, base32hex, base16) of base_n.cc:               *)
(* BaseNTransformer::encode and BaseNTransformer::decode, together with    *)
(* the EncodeNormalizer / DecodeNormalizer iterators they are built from,  *)
(* the width-changing iterator (transform_width) and the alphabet tables.  *)
(*                                                                         *)
(* A character is a one-character string, a text is a sequence of          *)
(* characters, a buffer is a sequence of bytes 0..255.  Iterators are      *)
(* 1-based positions; the end iterator of a sequence s is Len(s) + 1.      *)
(***************************************************************************)
EXTENDS Integers, Sequences, FiniteSets

(***************************************************************************)
(* Bounds of the model.                                                    *)
(***************************************************************************)
\* longest buffer handed to encode
MaxBytes == 5
\* longest text of the exhaustively enumerated decode inputs
MaxShortLen == 4

(***************************************************************************)
(* Common constants                                                        *)
(***************************************************************************)
BASE_PADDING_CHAR == "="
BINARY_ZERO_CODE == 0

\* what a read of the position past the last character of a std::string
\* yields when it is not trapped: the terminator
NUL == "NUL"

Encodings == {"base64", "base32hex", "base16"}

Min(a, b) == IF a < b THEN a ELSE b

RECURSIVE Pow2(_)
Pow2(n) == IF n = 0 THEN 1 ELSE 2 * Pow2(n - 1)

RECURSIVE Gcd(_, _)
Gcd(a, b) == IF b = 0 THEN a ELSE Gcd(b, a % b)

static_lcm(a, b) == (a * b) \div Gcd(a, b)

Range(s) == {s[i] : i \in 1..Len(s)}

\* isspace() in the "C" locale
isspace(ch) == ch \in {" ", "\t", "\n", "\f", "\r"}

(***************************************************************************)
(* The three instantiations                                                *)
(***************************************************************************)
BitsPerChunk(enc) ==
    CASE enc = "base64" -> 6
      [] enc = "base32hex" -> 5
      [] enc = "base16" -> 4

BaseZeroCode(enc) ==
    CASE enc = "base64" -> "A"
      [] enc = "base32hex" -> "0"
      [] enc = "base16" -> "0"

BITS_PER_GROUP(enc) == static_lcm(BitsPerChunk(enc), 8)

\* variant: the characters of one byte are counted without rounding up
MaxPaddingCharsNoCeil(enc) ==
    BITS_PER_GROUP(enc) \div BitsPerChunk(enc) - 8 \div BitsPerChunk(enc)

MAX_PADDING_CHARS(enc) ==
    BITS_PER_GROUP(enc) \div BitsPerChunk(enc)
    - (8 \div BitsPerChunk(enc) + (IF 8 % BitsPerChunk(enc) = 0 THEN 0 ELSE 1))

(***************************************************************************)
(* Alphabet tables: value -> character (baseN_from_binary) and             *)
(* character -> value (binary_from_baseN).                                 *)
(***************************************************************************)
Upper == <<"A", "B", "C", "D", "E", "F", "G", "H", "I", "J", "K", "L", "M",
           "N", "O", "P", "Q", "R", "S", "T", "U", "V", "W", "X", "Y", "Z">>
Lower == <<"a", "b", "c", "d", "e", "f", "g", "h", "i", "j", "k", "l", "m",
           "n", "o", "p", "q", "r", "s", "t", "u", "v", "w", "x", "y", "z">>
Digits == <<"0", "1", "2", "3", "4", "5", "6", "7", "8", "9">>

Base64Alphabet == Upper \o Lower \o Digits \o <<"+", "/">>
Base32HexAlphabet == Digits \o SubSeq(Upper, 1, 22)
Base16Alphabet == Digits \o SubSeq(Upper, 1, 6)

Alphabet(enc) ==
    CASE enc = "base64" -> Base64Alphabet
      [] enc = "base32hex" -> Base32HexAlphabet
      [] enc = "base16" -> Base16Alphabet

IndexOf(seq, x) ==
    IF x \in Range(seq) THEN CHOOSE i \in 1..Len(seq) : seq[i] = x ELSE 0

toupper(ch) ==
    IF ch \in Range(Lower) THEN Upper[IndexOf(Lower, ch)] ELSE ch

\* every character a text of the model can hold
AllChars ==
    Range(Base64Alphabet) \cup {BASE_PADDING_CHAR, " ", "\t", "\n", "\f", "\r", "!", NUL}

\* binary_from_base64: the value of ch, -1 for a character the table
\* rejects; the base64 table renders the padding character as 0
to_6_bit ==
    [ch \in AllChars |->
        IF ch = BASE_PADDING_CHAR THEN 0 ELSE IndexOf(Base64Alphabet, ch) - 1]

\* binary_from_base32hex: both cases are accepted, padding is not
to_5_bit ==
    [ch \in AllChars |-> IndexOf(Base32HexAlphabet, toupper(ch)) - 1]

\* binary_from_base16: both cases are accepted, padding is not
to_4_bit ==
    [ch \in AllChars |-> IndexOf(Base16Alphabet, toupper(ch)) - 1]

binary_from_baseN(enc, ch) ==
    CASE enc = "base64" -> to_6_bit[ch]
      [] enc = "base32hex" -> to_5_bit[ch]
      [] enc = "base16" -> to_4_bit[ch]

baseN_from_binary(enc, v) == Alphabet(enc)[v + 1]

(***************************************************************************)
(* EncodeNormalizer: an iterator [base, in_pad] over the buffer that       *)
(* yields zero bytes once it has reached the end.                          *)
(***************************************************************************)
EncodeNormalizer(base, binary) == [base |-> base, in_pad |-> FALSE]

EncodeNormalizerInc(it, binary) ==
    LET b == IF ~it.in_pad THEN it.base + 1 ELSE it.base
    IN [base |-> b, in_pad |-> it.in_pad \/ b = Len(binary) + 1]

\* variant: the bytes read beyond the end of the buffer are not zero
EncodeNormalizerDerefOnes(it, binary) ==
    IF it.in_pad THEN 255 ELSE binary[it.base]

EncodeNormalizerDeref(it, binary) ==
    IF it.in_pad THEN BINARY_ZERO_CODE ELSE binary[it.base]

(***************************************************************************)
(* DecodeNormalizer: an iterator [base, in_pad] over the text that skips   *)
(* white space when it advances and yields the zero character for a        *)
(* padding character once it has stepped onto base_beginpad.               *)
(***************************************************************************)
DecodeNormalizer(base) == [base |-> base, in_pad |-> FALSE]

RECURSIVE SkipSpaces(_, _)
SkipSpaces(input, b) ==
    IF b /= Len(input) + 1 /\ isspace(input[b])
    THEN SkipSpaces(input, b + 1)
    ELSE b

DecodeNormalizerInc(it, input, beginpad) ==
    LET b == SkipSpaces(input, it.base + 1)
    IN [base |-> b, in_pad |-> it.in_pad \/ b = beginpad]

\* *base_: at the end iterator the read is outside the string; it yields
\* the terminator, or is trapped by a checking iterator ("TRAP")
CharAt(input, b, endDeref) ==
    IF b = Len(input) + 1
    THEN (IF endDeref = "trap" THEN "TRAP" ELSE NUL)
    ELSE input[b]

DecodeNormalizerDeref(it, input, enc, endDeref) ==
    LET ch == CharAt(input, it.base, endDeref)
    IN IF it.in_pad /\ ch = BASE_PADDING_CHAR THEN BaseZeroCode(enc) ELSE ch

(***************************************************************************)
(* transform_width<Base, BitsOut, BitsIn>: the iterator that regroups the  *)
(* bits of a sequence of BitsIn-bit values into BitsOut-bit values.  Its   *)
(* state w is [it, displacement, buffer, bufferfull, lookups]: the base    *)
(* iterator, the number of bits of the buffered input value already used,  *)
(* the buffered input value, whether the buffer holds a value, and the     *)
(* number of characters handed to the alphabet table so far.               *)
(* ctx is [dir, enc, binary, input, beginpad, endDeref]: the direction     *)
(* ("encode": 8 -> BitsPerChunk over an EncodeNormalizer, "decode":        *)
(* BitsPerChunk -> 8 over binary_from_baseN<DecodeNormalizer>) and what    *)
(* the base iterator reads.                                                *)
(***************************************************************************)
BitsIn(ctx) == IF ctx.dir = "encode" THEN 8 ELSE BitsPerChunk(ctx.enc)
BitsOut(ctx) == IF ctx.dir = "encode" THEN BitsPerChunk(ctx.enc) ELSE 8

\* the end iterator of the base sequence
BaseEnd(ctx) ==
    IF ctx.dir = "encode" THEN Len(ctx.binary) + 1 ELSE Len(ctx.input) + 1

\* ++(this->base_reference())
BaseInc(ctx, it) ==
    IF ctx.dir = "encode"
    THEN EncodeNormalizerInc(it, ctx.binary)
    ELSE DecodeNormalizerInc(it, ctx.input, ctx.beginpad)

\* *this->base_reference(): the input value; -1 when the alphabet table
\* throws dataflow_exception, -2 when the read past the end is trapped
BaseDeref(ctx, it) ==
    IF ctx.dir = "encode"
    THEN EncodeNormalizerDeref(it, ctx.binary)
    ELSE LET ch == DecodeNormalizerDeref(it, ctx.input, ctx.enc, ctx.endDeref)
         IN IF ch = "TRAP" THEN -2 ELSE binary_from_baseN(ctx.enc, ch)

transform_width(it) ==
    [it |-> it, displacement |-> 0, buffer |-> 0, bufferfull |-> FALSE,
     lookups |-> 0]

\* fill(): gathers BitsOut bits, most significant first, reading further
\* input values as the buffered one runs out.  [err, val, w]
RECURSIVE Fill(_, _, _, _)

\* fill(), from the point where the buffered value v has bcount unused bits
FillBits(ctx, w, v, bcount, retval, missing_bits) ==
    LET i == Min(bcount, missing_bits)
        j == (v \div Pow2(bcount - i)) % Pow2(i)
        r == (retval * Pow2(i) + j) % 256
    IN IF missing_bits - i = 0
       THEN [err |-> "none", val |-> r, w |-> w]
       ELSE Fill(ctx, [w EXCEPT !.it = BaseInc(ctx, @), !.bufferfull = FALSE],
                 r, missing_bits - i)

\* fill(), from the point where *this->base_reference() has yielded v
FillLoaded(ctx, w, v, retval, missing_bits) ==
    IF v = -1 THEN [err |-> "InvalidCharacter", val |-> 0, w |-> w]
    ELSE IF v = -2 THEN [err |-> "Abort", val |-> 0, w |-> w]
    ELSE FillBits(ctx, [w EXCEPT !.buffer = v, !.bufferfull = TRUE], v,
                  BitsIn(ctx), retval, missing_bits)

Fill(ctx, w, retval, missing_bits) ==
    IF ~w.bufferfull
    THEN FillLoaded(ctx,
                    [w EXCEPT !.lookups = IF ctx.dir = "decode" THEN @ + 1 ELSE @],
                    BaseDeref(ctx, w.it), retval, missing_bits)
    ELSE FillBits(ctx, w, w.buffer, BitsIn(ctx) - w.displacement, retval,
                  missing_bits)

\* the while loop of increment()
RECURSIVE IncrementLoop(_, _)
IncrementLoop(ctx, w) ==
    IF w.displacement >= BitsIn(ctx)
    THEN LET d == w.displacement - BitsIn(ctx)
             full == IF d = 0 THEN FALSE ELSE w.bufferfull
         IN IncrementLoop(ctx,
                [w EXCEPT !.displacement = d,
                          !.bufferfull = full,
                          !.it = IF ~full THEN BaseInc(ctx, @) ELSE @])
    ELSE w

Increment(ctx, w) ==
    IncrementLoop(ctx, [w EXCEPT !.displacement = @ + BitsOut(ctx)])

\* the output value of the outermost iterator: the encoder maps the
\* regrouped value through the alphabet, the decoder yields the byte
Emit(ctx, val) ==
    IF ctx.dir = "encode" THEN baseN_from_binary(ctx.enc, val) ELSE val

\* the loop of assign(first, last) over single-pass iterators: compare with
\* last (iterators are equal when their base positions are), dereference,
\* store, increment.  [err, out, lookups]
RECURSIVE AssignLoop(_, _, _)

\* the body of the loop, f being what the dereference yielded
AssignStep(ctx, f, out) ==
    IF f.err /= "none"
    THEN [err |-> f.err, out |-> out, lookups |-> f.w.lookups]
    ELSE AssignLoop(ctx, Increment(ctx, f.w), Append(out, Emit(ctx, f.val)))

AssignLoop(ctx, w, out) ==
    IF w.it.base = BaseEnd(ctx)
    THEN [err |-> "none", out |-> out, lookups |-> w.lookups]
    ELSE AssignStep(ctx, Fill(ctx, w, 0, BitsOut(ctx)), out)

(***************************************************************************)
(* BaseNTransformer::encode                                                *)
(***************************************************************************)
\* variant: the length is not rounded up to a whole group
EncodedLenNoGroup(enc, binary) == (Len(binary) * 8) \div BitsPerChunk(enc)

\* the length of the encoded text
EncodedLen(enc, binary) ==
    LET bits0 == Len(binary) * 8
        bits == IF bits0 % BITS_PER_GROUP(enc) > 0
                THEN bits0 + (BITS_PER_GROUP(enc) - (bits0 % BITS_PER_GROUP(enc)))
                ELSE bits0
    IN bits \div BitsPerChunk(enc)

\* result.assign(Encoder(EncodeNormalizer(begin, end)), Encoder(...end...))
EncoderRun(enc, binary) ==
    AssignLoop([dir |-> "encode", enc |-> enc, binary |-> binary,
                input |-> <<>>, beginpad |-> 0, endDeref |-> "nul"],
               transform_width(EncodeNormalizer(1, binary)), <<>>).out

\* the assertion and the padding of encode, assigned being what the
\* encoder produced
Padded(len, assigned) ==
    IF ~(len >= Len(assigned))
    THEN [err |-> "AssertionFailed", text |-> assigned,
          produced |-> Len(assigned)]
    ELSE [err |-> "none",
          text |-> assigned \o [k \in 1..(len - Len(assigned)) |-> BASE_PADDING_CHAR],
          produced |-> Len(assigned)]

\* variant: no padding characters are appended
encodeNoPadding(enc, binary) ==
    Padded(Len(EncoderRun(enc, binary)), EncoderRun(enc, binary))

\* [err, text, produced]: err is "AssertionFailed" when the assertion
\* len >= result.length() does not hold
encode(enc, binary) == Padded(EncodedLen(enc, binary), EncoderRun(enc, binary))

(***************************************************************************)
(* BaseNTransformer::decode                                                *)
(***************************************************************************)
\* the backward scan that counts the trailing padding characters, ignoring
\* white space.  [excess, padchars, srit]: srit is the position the reverse
\* iterator stopped at (0: rend)
RECURSIVE PadScan(_, _, _, _)
PadScan(enc, input, srit, padchars) ==
    IF srit = 0
    THEN [excess |-> FALSE, padchars |-> padchars, srit |-> srit]
    ELSE LET ch == input[srit]
         IN IF ch = BASE_PADDING_CHAR
            THEN IF padchars + 1 > MAX_PADDING_CHARS(enc)
                 THEN [excess |-> TRUE, padchars |-> padchars + 1, srit |-> srit]
                 ELSE PadScan(enc, input, srit - 1, padchars + 1)
            ELSE IF ~isspace(ch)
                 THEN [excess |-> FALSE, padchars |-> padchars, srit |-> srit]
                 ELSE PadScan(enc, input, srit - 1, padchars)

\* (padchars * BitsPerChunk + 7) & ~7
PadBits(enc, padchars) == ((padchars * BitsPerChunk(enc) + 7) \div 8) * 8

\* variant: the bits of the last data character are not allowed for
InvalidPaddingNoSlack(enc, padchars) ==
    PadBits(enc, padchars) > BitsPerChunk(enc) * padchars

\* padbits > BitsPerChunk * (padchars + 1)
InvalidPadding(enc, padchars) ==
    PadBits(enc, padchars) > BitsPerChunk(enc) * (padchars + 1)

\* result.assign(Decoder(DecodeNormalizer(BaseZeroCode, begin, srit.base(),
\* end)), Decoder(...end...)); srit.base() is the position after srit
DecoderRun(enc, input, srit, endDeref) ==
    AssignLoop([dir |-> "decode", enc |-> enc, binary |-> <<>>,
                input |-> input, beginpad |-> srit + 1, endDeref |-> endDeref],
               transform_width(DecodeNormalizer(1)), <<>>)

\* the caller's vector when assign() is left by an exception after it has
\* stored the bytes of out: assign() over single-pass iterators overwrites
\* the old elements in place and appends beyond them
AssignInterrupted(old, out) ==
    IF Len(out) >= Len(old) THEN out
    ELSE out \o SubSeq(old, Len(out) + 1, Len(old))

\* variant: only the last byte is looked at
NonZeroPaddingLastByte(raw, padbytes) ==
    padbytes > 0 /\ raw[Len(raw)] /= 0

\* the bytes of result covered by padding hold a nonzero bit
NonZeroPadding(raw, padbytes) ==
    \E i \in 1..padbytes : raw[Len(raw) + 1 - i] /= 0

\* the checks on the decoded bytes and the final resize
Validate(raw, padbytes, lookups, padchars) ==
    IF ~(Len(raw) >= padbytes)
    THEN [err |-> "AssertionFailed", result |-> raw, padchars |-> padchars,
          raw |-> raw, lookups |-> lookups]
    ELSE IF NonZeroPadding(raw, padbytes)
    THEN [err |-> "NonCanonicalPadding", result |-> raw, padchars |-> padchars,
          raw |-> raw, lookups |-> lookups]
    ELSE [err |-> "none", result |-> SubSeq(raw, 1, Len(raw) - padbytes),
          padchars |-> padchars, raw |-> raw, lookups |-> lookups]

\* decode, from result.assign on: run is what the assignment yielded
Assigned(old, padchars, padbytes, run) ==
    IF run.err /= "none"
    THEN [err |-> run.err, result |-> AssignInterrupted(old, run.out),
          padchars |-> padchars, raw |-> run.out, lookups |-> run.lookups]
    ELSE Validate(run.out, padbytes, run.lookups, padchars)

\* decode, from the end of the backward scan on
Scanned(enc, input, old, endDeref, scan) ==
    IF scan.excess
    THEN [err |-> "ExcessPadding", result |-> old, padchars |-> scan.padchars,
          raw |-> <<>>, lookups |-> 0]
    ELSE IF InvalidPadding(enc, scan.padchars)
    THEN [err |-> "InvalidPaddingLength", result |-> old,
          padchars |-> scan.padchars, raw |-> <<>>, lookups |-> 0]
    ELSE Assigned(old, scan.padchars, PadBits(enc, scan.padchars) \div 8,
                  DecoderRun(enc, input, scan.srit, endDeref))

\* variant: the characters are decoded before the padding is checked
ScannedCharsFirst(enc, input, old, scan, run) ==
    IF run.err /= "none"
    THEN Assigned(old, scan.padchars, 0, run)
    ELSE IF scan.excess
    THEN [err |-> "ExcessPadding", result |-> run.out,
          padchars |-> scan.padchars, raw |-> run.out, lookups |-> run.lookups]
    ELSE IF InvalidPadding(enc, scan.padchars)
    THEN [err |-> "InvalidPaddingLength", result |-> run.out,
          padchars |-> scan.padchars, raw |-> run.out, lookups |-> run.lookups]
    ELSE Assigned(old, scan.padchars, PadBits(enc, scan.padchars) \div 8, run)

decodeCharsFirst(enc, input, old, endDeref) ==
    ScannedCharsFirst(enc, input, old, PadScan(enc, input, Len(input), 0),
        DecoderRun(enc, input,
                   PadScan(enc, input, Len(input), 0).srit, endDeref))

\* [err, result, padchars, raw, lookups]: err is "none" on success, the
\* error kind when BadValue is thrown, "AssertionFailed" when the assertion
\* result.size() >= padbytes does not hold, "Abort" when the read past the
\* end of the text is trapped; result is the caller's vector after the
\* call, old before it.
decode(enc, input, old, endDeref) ==
    Scanned(enc, input, old, endDeref, PadScan(enc, input, Len(input), 0))

(***************************************************************************)
(* The callers' inputs                                                     *)
(***************************************************************************)
\* all sequences over S of length at most n
RECURSIVE SeqsUpTo(_, _)
SeqsUpTo(S, n) ==
    IF n = 0 THEN {<<>>}
    ELSE LET shorter == SeqsUpTo(S, n - 1)
         IN shorter \cup {Append(s, x) : s \in {t \in shorter : Len(t) = n - 1}, x \in S}

ByteVals == {0, 102, 255}

\* the buffers handed to encode
Buffers == SeqsUpTo(ByteVals, MaxBytes)

\* the contents of the caller's vector before its first call of decode
OldResults == {<<>>, <<170, 187>>}

\* characters of the decode inputs: data characters (of both cases where
\* the encoding has them), the padding character, white space and a
\* character of no alphabet
InputChars(enc) ==
    CASE enc = "base64" -> {"g", "h", "=", " ", "!"}
      [] enc = "base32hex" -> {"O", "p", "=", " ", "!"}
      [] enc = "base16" -> {"F", "f", "=", " ", "!"}

Whitespace == {" ", "\n"}

Insert(t, i, ch) == SubSeq(t, 1, i) \o <<ch>> \o SubSeq(t, i + 1, Len(t))
Replace(t, i, ch) == [t EXCEPT ![i] = ch]
Delete(t, i) == SubSeq(t, 1, i - 1) \o SubSeq(t, i + 1, Len(t))

\* a text and the texts one character away from it
Edits(enc, t) ==
    {t}
    \cup {Insert(t, i, ch) : i \in 0..Len(t), ch \in InputChars(enc)}
    \cup {Replace(t, i, ch) : i \in 1..Len(t), ch \in InputChars(enc)}
    \cup {Delete(t, i) : i \in 1..Len(t)}

SeedBytes == {0, 102}

\* buffers of one byte value, up to one group long
SeedBuffers(enc) ==
    {[k \in 1..n |-> v] : n \in 0..(BITS_PER_GROUP(enc) \div 8), v \in SeedBytes}

\* the texts handed to decode: every short text, and every encoded text
\* with at most one character inserted, replaced or deleted
DecodeInputs(enc) ==
    SeqsUpTo(InputChars(enc), MaxShortLen)
    \cup UNION {Edits(enc, encode(enc, b).text) : b \in SeedBuffers(enc)}

EndDerefs == {"nul", "trap"}

(***************************************************************************)
(* The state: one caller and its calls                                     *)
(***************************************************************************)
VARIABLES
    pc,        \* where the caller is
    enc,       \* the encoding the caller uses
    binary,    \* the buffer handed to encode
    text,      \* the text encode returned
    input,     \* the text handed to decode
    old,       \* the caller's vector before decode was called
    result,    \* the caller's vector
    err,       \* how the last call ended
    padchars,  \* decode: the padding characters counted
    raw,       \* decode: the bytes assigned before validation
    lookups,   \* decode: the characters handed to the alphabet table
    produced,  \* encode: the characters the encoder produced
    wsInput,   \* input with one white space character inserted
    wsOut,     \* the outcome of decoding wsInput: [err, result]
    endDeref   \* the build: what reading the end of a string does

vars == <<pc, enc, binary, text, input, old, result, err, padchars, raw,
          lookups, produced, wsInput, wsOut, endDeref>>

NoOut == [err |-> "none", result |-> <<>>]

\* the caller is about to encode a buffer or to decode a text
Init ==
    /\ enc \in Encodings
    /\ \/ pc = "encode" /\ binary \in Buffers /\ input = <<>>
       \/ pc = "decode" /\ binary = <<>> /\ input \in DecodeInputs(enc)
    /\ old \in OldResults
    /\ result = old
    /\ text = <<>>
    /\ err = "none"
    /\ padchars = 0
    /\ raw = <<>>
    /\ lookups = 0
    /\ produced = 0
    /\ wsInput = <<>>
    /\ wsOut = NoOut
    /\ endDeref \in EndDerefs

\* the caller takes what encode returned
EncodeReturn(e) ==
    /\ text' = e.text
    /\ err' = e.err
    /\ produced' = e.produced

\* encodeBase64 / encodeBase32Hex / encodeHex on the caller's buffer
Encode ==
    /\ pc = "encode"
    /\ EncodeReturn(encode(enc, binary))
    /\ pc' = "encoded"
    /\ UNCHANGED <<enc, binary, input, old, result, padchars, raw, lookups,
                   wsInput, wsOut, endDeref>>

\* the caller finds its vector as decode left it
DecodeReturn(d) ==
    /\ old' = result
    /\ result' = d.result
    /\ err' = d.err
    /\ padchars' = d.padchars
    /\ raw' = d.raw
    /\ lookups' = d.lookups

\* the decode call on txt, into the caller's vector
DecodeCall(txt) == DecodeReturn(decode(enc, txt, result, endDeref))

\* decodeBase64 / decodeBase32Hex / decodeHex on the caller's text
Decode ==
    /\ pc = "decode"
    /\ DecodeCall(input)
    /\ pc' = "decoded"
    /\ UNCHANGED <<enc, binary, text, input, produced, wsInput, wsOut, endDeref>>

\* decode applied to the text encode returned
DecodeEncoded ==
    /\ pc = "encoded"
    /\ err = "none"
    /\ input' = text
    /\ DecodeCall(text)
    /\ pc' = "roundtrip"
    /\ UNCHANGED <<enc, binary, text, produced, wsInput, wsOut, endDeref>>

\* encode applied to the bytes decode returned
EncodeDecoded ==
    /\ pc = "decoded"
    /\ err = "none"
    /\ EncodeReturn(encode(enc, result))
    /\ binary' = result
    /\ pc' = "reencoded"
    /\ UNCHANGED <<enc, input, old, result, padchars, raw, lookups, wsInput,
                   wsOut, endDeref>>

\* the outcome of the second decode call
WsOutcome(d) == [err |-> d.err, result |-> d.result]

\* decode applied, into a vector with the same contents, to the text with
\* a white space character inserted after its i-th character
DecodeWithWhitespace ==
    /\ pc = "decoded"
    /\ \E i \in 1..Len(input), ws \in Whitespace :
          /\ wsInput' = Insert(input, i, ws)
          /\ wsOut' = WsOutcome(decode(enc, Insert(input, i, ws), old, endDeref))
    /\ pc' = "redecoded"
    /\ UNCHANGED <<enc, binary, text, input, old, result, err, padchars, raw,
                   lookups, produced, endDeref>>

Next ==
    \/ Encode
    \/ Decode
    \/ DecodeEncoded
    \/ EncodeDecoded

Spec == Init /\ [][Next]_vars

\* the callers that decode a text and the same text with white space added
NextWs ==
    \/ Decode
    \/ DecodeWithWhitespace

SpecWs == Init /\ [][NextWs]_vars

(***************************************************************************)
(* What the properties are stated in                                       *)
(***************************************************************************)
CharsPerGroup(e) ==
    CASE e = "base64" -> 4
      [] e = "base32hex" -> 8
      [] e = "base16" -> 2

BitsPerGroup(e) == CharsPerGroup(e) * BitsPerChunk(e)

MaxPaddingChars(e) ==
    CASE e = "base64" -> 2
      [] e = "base32hex" -> 6
      [] e = "base16" -> 0

Ceil(a, b) == (a + b - 1) \div b

RoundUpToByte(n) == CHOOSE m \in n..(n + 7) : m % 8 = 0

IsNotSpace(ch) == ~isspace(ch)

\* t without its white space
NonSpace(t) == SelectSeq(t, IsNotSpace)

\* t with white space stripped, in the casing encode produces
Canon(e, t) ==
    LET u == NonSpace(t)
    IN IF e = "base64" THEN u ELSE [i \in 1..Len(u) |-> toupper(u[i])]

\* the padding characters after the last character of t that is neither
\* a padding character nor white space
TrailingPads(t) ==
    LET data == {i \in 1..Len(t) : t[i] /= "=" /\ ~isspace(t[i])}
        last == IF data = {} THEN 0 ELSE CHOOSE i \in data : \A k \in data : k <= i
    IN Cardinality({i \in (last + 1)..Len(t) : t[i] = "="})

\* a padding count that cannot end on a byte boundary
BadBoundary(e, p) == RoundUpToByte(p * BitsPerChunk(e)) > BitsPerChunk(e) * (p + 1)

\* the characters of the alphabet, in both cases where decode accepts both
Accepted64 == Range(Base64Alphabet)
Accepted32Hex == {ch \in AllChars : toupper(ch) \in Range(Base32HexAlphabet)}
Accepted16 == {ch \in AllChars : toupper(ch) \in Range(Base16Alphabet)}

AcceptedChars(e) ==
    CASE e = "base64" -> Accepted64
      [] e = "base32hex" -> Accepted32Hex
      [] e = "base16" -> Accepted16

\* t holds a character that is no data character, padding or white space
HasForeignChar(e, t) ==
    \E i \in 1..Len(t) :
        t[i] \notin AcceptedChars(e) /\ t[i] /= "=" /\ ~isspace(t[i])

ErrorKinds ==
    {"ExcessPadding", "InvalidPaddingLength", "InvalidCharacter",
     "NonCanonicalPadding"}

Decoded == pc \in {"decoded", "roundtrip"}

(***************************************************************************)
(* Properties                                                              *)
(***************************************************************************)

\* C1: round trip.  Decoding the text encode returned for a buffer succeeds
\* and yields exactly that buffer, for each encoding, the empty buffer and
\* buffers ending in zero bytes included.
RoundTrip ==
    pc = "roundtrip" => err = "none" /\ result = binary

\* C1: a two-byte buffer ending in a zero byte has gone round in base32hex
RoundTripReached ==
    /\ pc = "roundtrip"
    /\ enc = "base32hex"
    /\ binary = <<102, 0>>
    /\ text = <<"C", "O", "0", "0", "=", "=", "=", "=">>
    /\ result = <<102, 0>>

WhitespaceTolerance ==
    pc = "redecoded" =>
        /\ (wsOut.err = "none") <=> (err = "none")
        /\ err = "none" => wsOut.result = result

\* C4: non-canonical rejection.  Once the padding checks and the decoding
\* of the characters have passed, a nonzero bit in the last padBytes bytes
\* of the decoded buffer makes decode fail with NonCanonicalPadding, and a
\* successful decode returns the decoded buffer less its last padBytes
\* bytes, all of which are zero.
NonCanonicalRejection ==
    (Decoded /\ err \in {"none", "NonCanonicalPadding"}) =>
        LET padBytes == RoundUpToByte(TrailingPads(input) * BitsPerChunk(enc)) \div 8
            covered == {i \in 1..Len(raw) : i > Len(raw) - padBytes}
        IN /\ (\E i \in covered : raw[i] /= 0) <=> err = "NonCanonicalPadding"
           /\ err = "none" => result = SubSeq(raw, 1, Len(raw) - padBytes)

\* C4: base64 "Zh==" is rejected for the low bits of its last data character
NonCanonicalRejected ==
    /\ pc = "decoded"
    /\ enc = "base64"
    /\ input = <<"Z", "h", "=", "=">>
    /\ raw = <<102, 16, 0>>
    /\ err = "NonCanonicalPadding"

\* C5: excess padding.  A text with more trailing padding characters than
\* MaxPaddingChars (2 for base64, 6 for base32hex, 0 for base16) fails with
\* ExcessPadding.
ExcessPaddingRejected ==
    (pc = "decoded" /\ TrailingPads(input) > MaxPaddingChars(enc)) =>
        err = "ExcessPadding"

\* C5: a base64 text with three trailing padding characters was rejected
ExcessPaddingReached ==
    /\ pc = "decoded"
    /\ enc = "base64"
    /\ input = <<"Z", "g", "=", "=", "=">>
    /\ err = "ExcessPadding"

\* C6: encode length law.  encode never fails and returns a text of
\* ceil(len * 8 / BitsPerGroup) * CharsPerGroup characters, a multiple of
\* CharsPerGroup; for base64 that is ceil(len / 3) * 4; the empty buffer
\* encodes to the empty text.
EncodeLengthLaw ==
    pc \in {"encoded", "reencoded"} =>
        /\ err = "none"
        /\ Len(text) = Ceil(Len(binary) * 8, BitsPerGroup(enc)) * CharsPerGroup(enc)
        /\ Len(text) % CharsPerGroup(enc) = 0
        /\ enc = "base64" => Len(text) = Ceil(Len(binary), 3) * 4
        /\ binary = <<>> => text = <<>>

\* C6: four bytes were encoded to two groups of base64
EncodeLengthReached ==
    /\ pc = "encoded"
    /\ enc = "base64"
    /\ Len(binary) = 4
    /\ Len(text) = 8
    /\ produced = 6

\* C7: invalid padding length.  decode fails with InvalidPaddingLength
\* exactly when the trailing padding count p is at most MaxPaddingChars and
\* roundUpToByte(p * BitsPerChunk) > BitsPerChunk * (p + 1): for base32hex
\* when p is 2 or 5, for base64 and base16 never.
InvalidPaddingLengthLaw ==
    pc = "decoded" =>
        LET p == TrailingPads(input)
        IN /\ err = "InvalidPaddingLength"
                <=> (p <= MaxPaddingChars(enc) /\ BadBoundary(enc, p))
           /\ (enc = "base32hex" /\ p <= MaxPaddingChars(enc)) =>
                (err = "InvalidPaddingLength" <=> p \in {2, 5})
           /\ enc \in {"base64", "base16"} => err /= "InvalidPaddingLength"

\* C7: a base32hex text with two trailing padding characters was rejected
InvalidPaddingLengthReached ==
    /\ pc = "decoded"
    /\ enc = "base32hex"
    /\ TrailingPads(input) = 2
    /\ Len(NonSpace(input)) = 7
    /\ err = "InvalidPaddingLength"

\* C8: order of the checks.  Excess padding is reported before an invalid
\* padding length, that before an invalid character, and non-canonical
\* padding last; no character reaches the alphabet table before both
\* padding checks have passed, and all of them have when the padding is
\* found non-canonical.
CheckOrder ==
    pc = "decoded" =>
        LET p == TrailingPads(input)
            excess == p > MaxPaddingChars(enc)
            badlen == ~excess /\ BadBoundary(enc, p)
        IN /\ excess => err = "ExcessPadding"
           /\ badlen => err = "InvalidPaddingLength"
           /\ err \in {"ExcessPadding", "InvalidPaddingLength"} => lookups = 0
           /\ (~excess /\ ~badlen /\ HasForeignChar(enc, input)) =>
                err = "InvalidCharacter"
           /\ err = "NonCanonicalPadding" => lookups = Len(NonSpace(input))

\* C8: a text with a character of no alphabet and too much padding was
\* rejected for the padding, without any character looked up
CheckOrderReached ==
    /\ pc = "decoded"
    /\ enc = "base64"
    /\ input = <<"!", "=", "=", "=">>
    /\ err = "ExcessPadding"
    /\ lookups = 0

\* C9: no partial result.  When decode fails with one of the four error
\* kinds, the caller's vector holds what it held before the call.
NoPartialResult ==
    (Decoded /\ err \in ErrorKinds) => result = old

\* C10: the assertions hold.  In encode the encoder never produces more
\* characters than the computed length; in decode the decoded buffer holds
\* at least padBytes bytes whenever the padding checks and the decoding of
\* the characters have passed.
AssertionsHold ==
    /\ err /= "AssertionFailed"
    /\ pc \in {"encoded", "reencoded"} =>
          produced <= Ceil(Len(binary) * 8, BitsPerGroup(enc)) * CharsPerGroup(enc)
    /\ (Decoded /\ err \in {"none", "NonCanonicalPadding"}) =>
          Len(raw) >= RoundUpToByte(padchars * BitsPerChunk(enc)) \div 8

\* C10: a base32hex text with the most padding passed the assertion of
\* decode with one byte to spare
AssertionsReached ==
    /\ pc = "decoded"
    /\ enc = "base32hex"
    /\ padchars = 6
    /\ Len(raw) = 5
    /\ err = "none"

====
